---------------------------- MODULE Spec2Model ----------------------------
(* A model of the ChatGPT Navigator content script, latest variant         *)
(* (src/unnamed/part_000, lines 1-377): the message scanner, the           *)
(* per-conversation seen registry, the toggleable sidebar, the readiness   *)
(* poll, the debounced mutation watcher and the conversation-change poll.  *)
(*                                                                         *)
(* Strings are sequences.  A message text is a sequence of UTF-16 code     *)
(* units (integers); identifiers (conversation keys, signatures, element   *)
(* ids) are sequences of string tokens whose concatenation is the          *)
(* JavaScript string, so two ids are equal exactly when the sequences are. *)
EXTENDS Integers, Sequences, FiniteSets, TLC

(* ------------------------------------------------------------------ *)
(* Bounds of the model                                                 *)
(* ------------------------------------------------------------------ *)

\* most user-message nodes in the page at one time
MaxNodes == 3

\* most page changes (node added, text changed, node removed, navigation)
MaxMut == 3

(* ------------------------------------------------------------------ *)
(* Program constants                                                   *)
(* ------------------------------------------------------------------ *)

\* norm = normalizeText(raw).slice(0, 400)
NormCap == 400

\* key = it.norm.slice(0, 200)
KeyCap == 200

\* text: raw.length > 80 ? raw.slice(0, 80) + "..." : raw
DisplayCap == 80

\* let h = 5381
HashSeed == 5381

\* h * 33
HashMul == 33

\* one 16-bit limb of the 32-bit hash value
Limb == 65536

(* ------------------------------------------------------------------ *)
(* Text: code units, String.prototype.trim / replace / toLowerCase     *)
(* ------------------------------------------------------------------ *)

Min(a, b) == IF a < b THEN a ELSE b

\* the code units the model's page uses: tab, line feed, space, A B, a b x
WhiteSpace == {9, 10, 32}

isSpace(c) == c \in WhiteSpace

\* s.slice(0, n)
slice(s, n) == SubSeq(s, 1, Min(n, Len(s)))

\* s.startsWith(p)
startsWith(s, p) == Len(p) <= Len(s) /\ SubSeq(s, 1, Len(p)) = p

RECURSIVE dropLeadingSpace(_)
dropLeadingSpace(s) ==
    IF s # <<>> /\ isSpace(Head(s)) THEN dropLeadingSpace(Tail(s)) ELSE s

RECURSIVE dropTrailingSpace(_)
dropTrailingSpace(s) ==
    IF s # <<>> /\ isSpace(s[Len(s)])
    THEN dropTrailingSpace(SubSeq(s, 1, Len(s) - 1))
    ELSE s

\* String.prototype.trim
trim(s) == dropTrailingSpace(dropLeadingSpace(s))

\* s.replace(/\s+/g, " "): every maximal run of white space becomes one space
\* (a white-space unit is kept, as a space, only where it starts a run)
collapseSpace(s) ==
    LET starts == SelectSeq([i \in 1..Len(s) |-> i],
                            LAMBDA i : ~isSpace(s[i]) \/ i = 1 \/ ~isSpace(s[i - 1]))
    IN  [k \in 1..Len(starts) |-> IF isSpace(s[starts[k]]) THEN 32 ELSE s[starts[k]]]

\* String.prototype.toLowerCase on the model's code units (A-Z -> a-z)
toLowerCase(s) ==
    [i \in 1..Len(s) |-> IF s[i] \in 65..90 THEN s[i] + 32 ELSE s[i]]

\* a plausible slip: the case fold is left out
normalizeTextNoLower(s) ==
    IF s = <<>> THEN <<>> ELSE trim(collapseSpace(s))

\* a plausible slip: white space is trimmed but runs are not collapsed
normalizeTextNoCollapse(s) ==
    IF s = <<>> THEN <<>> ELSE toLowerCase(trim(s))

\* function normalizeText(s)
normalizeText(s) ==
    IF s = <<>> THEN <<>> ELSE toLowerCase(trim(collapseSpace(s)))

(* ------------------------------------------------------------------ *)
(* strHashHex: h = (h * 33) ^ charCode. A number is a pair            *)
(* <<high, low>> of value high * 2^16 + low with low in 0..2^16-1;     *)
(* high is negative for a negative number. (h >>> 0).toString(16)      *)
(* ------------------------------------------------------------------ *)

\* a ^ b on non-negative integers (each operand is bound to its value once)
RECURSIVE BitXor(_, _)
BitXor(a, b) ==
    CHOOSE r \in {IF x = 0 THEN y
                  ELSE IF y = 0 THEN x
                  ELSE (((x % 2) + (y % 2)) % 2) + 2 * BitXor(x \div 2, y \div 2) :
                  x \in {a}, y \in {b}} : TRUE

\* h * 33: the product of two Numbers, not reduced to 32 bits
product(h) ==
    CHOOSE r \in {LET low == hv[2] * HashMul
                  IN  <<hv[1] * HashMul + (low \div Limb), low % Limb>> :
                  hv \in {h}} : TRUE

\* ToInt32, which ^ applies to its operands: modulo 2^32, into -2^31..2^31-1
ToInt32(x) == <<((x[1] + (Limb \div 2)) % Limb) - (Limb \div 2), x[2]>>

\* a plausible slip (h.toString(16) for (h >>> 0).toString(16)): no conversion
toUint32Not(x) == x

\* x >>> 0 (ToUint32): modulo 2^32, into 0..2^32-1
toUint32(x) == <<x[1] % Limb, x[2]>>

\* (h * 33) ^ c: c is a UTF-16 code unit (0..65535), its high half is zero
hashStep(h, c) ==
    CHOOSE r \in {<<pv[1], BitXor(pv[2], c)>> : pv \in {ToInt32(product(h))}} : TRUE

\* for (let i = 0; i < str.length; i++) h = (h * 33) ^ str.charCodeAt(i),
\* over the units i..j of str, left to right (the range is halved only to keep
\* the evaluation shallow; the steps are applied in the loop's order)
RECURSIVE hashRange(_, _, _, _)
hashRange(h, str, i, j) ==
    IF i > j THEN h
    ELSE IF i = j THEN hashStep(h, str[i])
    ELSE CHOOSE r \in {hashRange(h1, str, ((i + j) \div 2) + 1, j) :
                         h1 \in {hashRange(h, str, i, (i + j) \div 2)}} : TRUE

HexDigit == <<"0", "1", "2", "3", "4", "5", "6", "7",
              "8", "9", "a", "b", "c", "d", "e", "f">>

RECURSIVE dropLeadingZero(_)
dropLeadingZero(ds) ==
    IF Len(ds) > 1 /\ Head(ds) = "0" THEN dropLeadingZero(Tail(ds)) ELSE ds

\* -x for a negative x
negate(x) == IF x[2] = 0 THEN <<-x[1], 0>> ELSE <<-x[1] - 1, Limb - x[2]>>

\* Number.prototype.toString(16) of an integer of magnitude up to 2^32: the
\* digits of the magnitude without leading zero, after "-" when negative
toString16(h) ==
    LET nib(x, k) == HexDigit[((x \div k) % 16) + 1]
        digits(m) == dropLeadingZero(
                         <<nib(m[1], 4096), nib(m[1], 256), nib(m[1], 16), nib(m[1], 1),
                           nib(m[2], 4096), nib(m[2], 256), nib(m[2], 16), nib(m[2], 1)>>)
    IN  CHOOSE r \in {IF hv[1] < 0 THEN <<"-">> \o digits(negate(hv)) ELSE digits(hv) :
                      hv \in {h}} : TRUE

\* function strHashHex(str)
strHashHex(str) ==
    CHOOSE r \in {toString16(toUint32(hashRange(<<0, HashSeed>>, sv, 1, Len(sv)))) :
                  sv \in {str}} : TRUE

(* ------------------------------------------------------------------ *)
(* Identifiers                                                         *)
(* ------------------------------------------------------------------ *)

\* the value of a missing attribute, an empty id, an unset variable
None == <<>>

\* location.origin
Origin == "https://chatgpt.example"

\* a plausible slip (lastIndexOf for indexOf): the last "chat" segment decides
getConversationKeyLastChat(p) ==
    LET parts == SelectSeq(p, LAMBDA t : t # "/")
        hits  == {i \in 1..Len(parts) : parts[i] = "chat"}
        chatIdx == IF hits = {} THEN 0
                   ELSE CHOOSE i \in hits : \A j \in hits : i >= j
    IN  IF chatIdx >= 1 /\ Len(parts) > chatIdx
        THEN <<parts[chatIdx + 1]>>
        ELSE <<Origin>> \o p

\* function getConversationKey(): p is location.pathname as a sequence of
\* "/" and segment tokens
getConversationKey(p) ==
    LET parts == SelectSeq(p, LAMBDA t : t # "/")
        hits  == {i \in 1..Len(parts) : parts[i] = "chat"}
        chatIdx == IF hits = {} THEN 0
                   ELSE CHOOSE i \in hits : \A j \in hits : i <= j
    IN  IF chatIdx >= 1 /\ Len(parts) > chatIdx
        THEN <<parts[chatIdx + 1]>>
        ELSE <<Origin>> \o p

\* "s_" + strHashHex(norm)
signatureOf(norm) == <<"s_">> \o strHashHex(norm)

\* `cgpn-${convKey}-${signature}`
nodeIdFor(convKey, signature) == <<"cgpn-">> \o convKey \o <<"-">> \o signature

\* "cgpn-item-" + q.signature
itemDomIdFor(signature) == <<"cgpn-", "item", "-">> \o signature

(* ------------------------------------------------------------------ *)
(* Scanner                                                             *)
(* ------------------------------------------------------------------ *)

\* the texts a user-message node can hold: "  ", "a", "a b", "A  b ", "b"
PageTexts == {<<32, 32>>, <<97>>, <<97, 32, 98>>, <<65, 32, 32, 98, 32>>, <<98>>}

Rep(c, n) == [i \in 1..n |-> c]

\* "x" KeyCap times, then "a" or "b": equal merge keys, different norms
LongKeyA == Rep(120, KeyCap) \o <<97>>
LongKeyB == Rep(120, KeyCap) \o <<98>>

\* "x" NormCap times, then "a" or "b": equal norms once cut at the norm cap
LongNormA == Rep(120, NormCap) \o <<97>>
LongNormB == Rep(120, NormCap) \o <<98>>

ScanTexts == PageTexts \cup {LongKeyA, LongKeyB, LongNormA, LongNormB}

\* for each text of the universe, what the scanner derives from it, computed
\* once: (node.innerText || "").trim(), normalizeText(raw).slice(0, 400) and
\* "s_" + strHashHex(norm)
RawOf == [t \in ScanTexts |-> trim(t)]
NormOf == [t \in ScanTexts |-> slice(normalizeText(RawOf[t]), NormCap)]
HashedSignature == [t \in ScanTexts |-> signatureOf(NormOf[t])]

\* a user-message node: its identity, innerText, data-nav-signature, id and
\* style.boxShadow; lockSig and lockId say that setAttribute, respectively the
\* assignment to id, throws on this node
HostNode(n, t, ls, li) ==
    [nid |-> n, text |-> t, sig |-> None, id |-> None, boxShadow |-> None,
     lockSig |-> ls, lockId |-> li]

\* a user-message node on which nothing throws
Node(n, t) == HostNode(n, t, FALSE, FALSE)

\* (node.innerText || "").trim()
rawOf(node) == RawOf[node.text]

\* normalizeText(raw).slice(0, 400)
normOf(node) == NormOf[node.text]

\* a plausible slip: the attached signature is ignored and the hash recomputed
signatureForNodeRehash(node) == signatureOf(normOf(node))

\* a plausible slip: the raw text is hashed, not the normalized text
signatureForNodeRaw(node) ==
    IF node.sig # None THEN node.sig ELSE signatureOf(rawOf(node))

\* let signature = node.getAttribute("data-nav-signature");
\* if (!signature) signature = "s_" + strHashHex(norm)
signatureForNode(node) ==
    IF node.sig # None THEN node.sig ELSE HashedSignature[node.text]

\* a plausible slip (no try around setAttribute and the id assignment): a
\* throw ends the forEach body before the item is pushed
survivesTaggingNot(node) ==
    ~((node.sig = None /\ node.lockSig) \/ (node.id = None /\ node.lockId))

\* try { node.setAttribute(...) } catch (e) {}, try { node.id = ... } catch (e) {}:
\* the forEach body reaches items.push whatever throws
survivesTagging(node) == TRUE

\* the node after the forEach body: signature attribute and id attached,
\* unless attaching throws
tagNode(node, convKey) ==
    IF rawOf(node) = <<>> THEN node
    ELSE LET signature == signatureForNode(node)
         IN  [node EXCEPT !.sig = IF node.sig = None /\ node.lockSig
                                  THEN node.sig
                                  ELSE signature,
                          !.id  = IF node.id = None /\ ~node.lockId
                                  THEN nodeIdFor(convKey, signature)
                                  ELSE node.id]

\* the page after getAllMessagesForCurrentConv has walked it
tagAll(d, convKey) == [i \in 1..Len(d) |-> tagNode(d[i], convKey)]

\* raw.length > 80 ? raw.slice(0, 80) + "..." : raw   (8230 is the ellipsis)
displayText(raw) ==
    IF Len(raw) > DisplayCap THEN slice(raw, DisplayCap) \o <<8230>> ELSE raw

\* the object pushed for one node
itemOf(node, convKey) ==
    LET t == tagNode(node, convKey)
    IN  [signature |-> signatureForNode(node),
         id        |-> t.id,
         text      |-> displayText(rawOf(node)),
         norm      |-> normOf(node),
         rawText   |-> rawOf(node),
         element   |-> node.nid]

\* a plausible slip (the test of the trimmed text left out): every node gets
\* an item
getAllMessagesNoSkip(d, convKey) == [i \in 1..Len(d) |-> itemOf(d[i], convKey)]

\* function getAllMessagesForCurrentConv(): the items, in document order,
\* of the nodes whose trimmed text is not empty
RECURSIVE getAllMessagesForCurrentConv(_, _)
getAllMessagesForCurrentConv(d, convKey) ==
    IF d = <<>> THEN <<>>
    ELSE (IF rawOf(Head(d)) = <<>> \/ ~survivesTagging(Head(d))
          THEN <<>>
          ELSE <<itemOf(Head(d), convKey)>>)
         \o getAllMessagesForCurrentConv(Tail(d), convKey)

\* it.norm.slice(0, 200)
keyOf(it) == slice(it.norm, KeyCap)

\* a plausible slip: only equal keys are merged
isDuplicateOfEqualOnly(s, key) == s = key

\* s === key || s.startsWith(key) || key.startsWith(s)
isDuplicateOf(s, key) == s = key \/ startsWith(s, key) \/ startsWith(key, s)

RECURSIVE uniqueFrom(_, _, _)
uniqueFrom(items, ordered, seenNorms) ==
    IF items = <<>> THEN ordered
    ELSE LET it  == Head(items)
             key == keyOf(it)
             duplicate == \E s \in seenNorms : isDuplicateOf(s, key)
         IN  IF duplicate
             THEN uniqueFrom(Tail(items), ordered, seenNorms)
             ELSE uniqueFrom(Tail(items), Append(ordered, it), seenNorms \cup {key})

\* a plausible slip: the last item of a group is kept (the scan runs backwards)
RECURSIVE reverseSeq(_)
reverseSeq(s) == IF s = <<>> THEN <<>> ELSE Append(reverseSeq(Tail(s)), Head(s))

uniqueOrderedKeepLast(items) == reverseSeq(uniqueFrom(reverseSeq(items), <<>>, {}))

\* function uniqueOrdered(items)
uniqueOrdered(items) == uniqueFrom(items, <<>>, {})

(* ------------------------------------------------------------------ *)
(* Seen registry: const convSeen = new Map()                           *)
(* ------------------------------------------------------------------ *)

\* a plausible slip: the test convSeen.has(key) is left out, so every call
\* installs a new empty Set
ensureConvSetFresh(cs, key) == (key :> {}) @@ cs

\* function ensureConvSet(key): the registry once the key has a set
ensureConvSet(cs, key) ==
    IF key \in DOMAIN cs THEN cs ELSE cs @@ (key :> {})

\* a plausible slip: one seen set shared by every conversation
seenOfGlobal(cs, key) == UNION {cs[k] : k \in DOMAIN cs}

\* the set ensureConvSet(key) returns
seenOf(cs, key) == ensureConvSet(cs, key)[key]

\* a plausible slip: the signatures are not recorded
addSeenNothing(cs, key, S) == ensureConvSet(cs, key)

\* seen.add(signature) for every signature of S
addSeen(cs, key, S) == [ensureConvSet(cs, key) EXCEPT ![key] = @ \cup S]

signaturesOf(items) == {items[i].signature : i \in 1..Len(items)}

(* ------------------------------------------------------------------ *)
(* Sidebar list                                                        *)
(* ------------------------------------------------------------------ *)

\* <div class="nav-empty">No user messages found yet.</div>
EmptyEntry ==
    [cls |-> "nav-empty", id |-> None, signature |-> None, qid |-> None,
     element |-> 0, text |-> None, conv |-> None, key |-> None]

\* <div class="nav-item" id="cgpn-item-..."> with its click closure (q.id,
\* q.element); conv records the conversation key it was rendered under and
\* key the merge key of the item it was rendered for
ItemEntry(q, convKey) ==
    [cls |-> "nav-item", id |-> itemDomIdFor(q.signature),
     signature |-> q.signature, qid |-> q.id, element |-> q.element,
     text |-> q.text, conv |-> convKey, key |-> keyOf(q)]

\* a plausible slip: the lookup of an existing entry is left out
hasElementWithIdNever(d, lst, x) == FALSE

\* document.getElementById(x) finds something: the elements that carry an id
\* are the user-message nodes and the entries of the list
hasElementWithId(d, lst, x) ==
    \/ \E i \in 1..Len(d) : d[i].id = x
    \/ \E i \in 1..Len(lst) : lst[i].id = x

\* for (const q of items) { if (document.getElementById(itemDomId)) continue; ... }
RECURSIVE appendItems(_, _, _, _)
appendItems(lst, items, d, convKey) ==
    IF items = <<>> THEN lst
    ELSE LET q == Head(items)
         IN  IF hasElementWithId(d, lst, itemDomIdFor(q.signature))
             THEN appendItems(lst, Tail(items), d, convKey)
             ELSE appendItems(Append(lst, ItemEntry(q, convKey)), Tail(items), d, convKey)

\* a plausible slip: the list is left as it is
clearListKept(lst) == lst

\* list.innerHTML = ""
clearList(lst) == <<>>

\* a plausible slip (the empty case forgotten): no placeholder is rendered
placeholderNeededNever(items, append) == FALSE

\* (!items || items.length === 0) && !options.append
placeholderNeeded(items, append) == items = <<>> /\ ~append

\* a plausible slip (the append option ignored): the list is always cleared
updateSidebarNoAppend(lst, items, append, d, convKey) ==
    IF items = <<>>
    THEN <<EmptyEntry>>
    ELSE appendItems(clearList(lst), items, d, convKey)

\* function updateSidebar(items, options): the new children of the list
updateSidebar(lst, items, append, d, convKey) ==
    LET start == IF append THEN lst ELSE clearList(lst)
    IN  IF placeholderNeeded(items, append)
        THEN <<EmptyEntry>>
        ELSE appendItems(start, items, d, convKey)

(* ------------------------------------------------------------------ *)
(* The page the model runs in                                          *)
(* ------------------------------------------------------------------ *)

\* the address the page is at when the script starts: /chat/k1
StartLocation == <<"/", "chat", "/", "k1">>

\* the addresses the page can be at: /chat/k1 and /chat/k2
Locations == {<<"/", "chat", "/", "k1">>, <<"/", "chat", "/", "k2">>}

VARIABLES
    dom,              \* the user-message nodes, in document order
    loc,              \* location.pathname
    rootPresent,      \* the chat container is in the document
    muts,             \* page changes so far
    convSeen,         \* the Map from conversation key to Set of signatures
    ariaExpanded,     \* the toggle button's aria-expanded, or "no-button"
    display,          \* the sidebar's style.display, or "no-sidebar"
    list,             \* the children of #chatgpt-navigator-list
    attempts,         \* readiness poll: probes made
    intervalActive,   \* readiness poll: its setInterval is live
    installed,        \* handlers, observer and conversation poll are set up
    observerTimeout,  \* the armed timeouts of the MutationObserver callback
    lastConv,         \* let lastConv of the conversation poll
    highlightTimeouts, \* the armed timeouts of the entries' click handlers
    openHist          \* history: the opens since the page last changed

vars == <<dom, loc, rootPresent, muts, convSeen, ariaExpanded, display, list,
          attempts, intervalActive, installed, observerTimeout, lastConv,
          highlightTimeouts, openHist>>

page == <<dom, loc, rootPresent, muts>>
ui == <<ariaExpanded, display, list>>
timers == <<attempts, intervalActive, installed, observerTimeout, lastConv>>

\* the readiness poll gives up when attempts > 40
MaxAttempts == 40

\* no timeout of the MutationObserver callback is armed
NoTimeout == <<>>

\* the identities setTimeout can return
TimerIds == {1, 2, 3}

\* no open recorded since the page last changed
NoHist == [n |-> 0, sigs |-> <<>>]

\* the most opens the history counts
MaxOpens == 2

Init ==
    /\ dom = <<>>
    /\ loc = StartLocation
    /\ rootPresent = TRUE
    /\ muts = 0
    /\ convSeen = <<>>
    /\ ariaExpanded = "no-button"
    /\ display = "no-sidebar"
    /\ list = <<>>
    /\ attempts = 0
    /\ intervalActive = TRUE
    /\ installed = FALSE
    /\ observerTimeout = NoTimeout
    /\ lastConv = None
    /\ highlightTimeouts = <<>>
    /\ openHist = NoHist

(* ------------------------------------------------------------------ *)
(* What the scripts' functions do to the state                         *)
(* ------------------------------------------------------------------ *)

\* the signatures of the entries of a list, in order (the placeholder has none)
RenderedSigs(lst) ==
    LET items == SelectSeq(lst, LAMBDA e : e.cls = "nav-item")
    IN  [i \in 1..Len(items) |-> items[i].signature]

\* a plausible slip: a new button starts with aria-expanded "true"
ensureToggleButtonExpanded(aria) == IF aria = "no-button" THEN "true" ELSE aria

\* function ensureToggleButton(): a new button starts with aria-expanded "false"
ensureToggleButton(aria) == IF aria = "no-button" THEN "false" ELSE aria

\* a plausible slip (the earlier variants' behaviour): a rebuild renders only
\* what has not been seen yet
rebuildItemsUnseenOnly(all, seen) ==
    uniqueOrdered(SelectSeq(all, LAMBDA it : it.signature \notin seen))

\* toggleSidebar(true), lines 249-250: the items a full rebuild renders
rebuildItems(all, seen) == uniqueOrdered(all)

\* function toggleSidebar(show)
toggleSidebar(show) ==
    LET convKey == getConversationKey(loc)
        all     == getAllMessagesForCurrentConv(dom, convKey)
        tagged  == tagAll(dom, convKey)
        unique  == rebuildItems(all, seenOf(convSeen, convKey))
    IN  IF show
        THEN /\ display' = "block"
             /\ ariaExpanded' = "true"
             /\ dom' = tagged
             /\ convSeen' = addSeen(convSeen, convKey, signaturesOf(unique))
             /\ list' = updateSidebar(list, unique, FALSE, tagged, convKey)
             /\ openHist' = IF openHist.n = 0
                            THEN [n |-> 1, sigs |-> RenderedSigs(list')]
                            ELSE [openHist EXCEPT !.n = Min(@ + 1, MaxOpens)]
        ELSE /\ display' = "none"
             /\ ariaExpanded' = "false"
             /\ list' = clearList(list)
             /\ UNCHANGED <<dom, convSeen, openHist>>

\* a plausible slip: the filter is left out
unseenItemsAll(all, seen) == all

\* appendNewMessagesForCurrentConv, line 274: the items not seen yet
unseenItems(all, seen) == SelectSeq(all, LAMBDA it : it.signature \notin seen)

\* a plausible slip: the watcher renders whether or not the panel is displayed
sidebarVisibleAlways(disp) == TRUE

\* appendNewMessagesForCurrentConv, line 283:
\* sidebar && sidebar.style.display === "block"
sidebarVisible(disp) == disp = "block"

\* function appendNewMessagesForCurrentConv()
appendNewMessagesForCurrentConv ==
    LET convKey  == getConversationKey(loc)
        seen     == seenOf(convSeen, convKey)
        all      == getAllMessagesForCurrentConv(dom, convKey)
        tagged   == tagAll(dom, convKey)
        newItems == unseenItems(all, seen)
        merged   == uniqueOrdered(newItems)
    IN  /\ dom' = tagged
        /\ IF newItems = <<>>
           THEN /\ convSeen' = ensureConvSet(convSeen, convKey)
                /\ list' = list
           ELSE /\ convSeen' = addSeen(convSeen, convKey, signaturesOf(merged))
                /\ list' = IF sidebarVisible(display)
                           THEN updateSidebar(list, merged, TRUE, tagged, convKey)
                           ELSE list
        /\ UNCHANGED <<ariaExpanded, display, openHist>>

\* a plausible slip (the merge of the rebuild copied): only the items that
\* uniqueOrdered keeps are marked
silentItemsMerged(all) == uniqueOrdered(all)

\* initialSilentMark, line 297: all.forEach((m) => seen.add(m.signature))
silentItems(all) == all

\* function initialSilentMark()
initialSilentMark ==
    LET convKey == getConversationKey(loc)
        all     == getAllMessagesForCurrentConv(dom, convKey)
    IN  /\ dom' = tagAll(dom, convKey)
        /\ convSeen' = addSeen(convSeen, convKey, signaturesOf(silentItems(all)))

(* ------------------------------------------------------------------ *)
(* The host page                                                       *)
(* ------------------------------------------------------------------ *)

\* a plausible slip: the pending timeout is not cleared
clearTimeoutNot(armed) == armed

\* if (observer._timeout) clearTimeout(observer._timeout): observer._timeout
\* is the timeout created last, the last of the armed ones unless it has fired
clearTimeout(armed) ==
    IF armed = <<>> THEN <<>> ELSE SubSeq(armed, 1, Len(armed) - 1)

\* the identity setTimeout returns: one that no armed timeout has
newTimer(armed) ==
    CHOOSE t \in TimerIds :
        /\ \A k \in 1..Len(armed) : armed[k] # t
        /\ \A u \in TimerIds : (\A k \in 1..Len(armed) : armed[k] # u) => t <= u

\* a change under the chat container reaches the MutationObserver, whose
\* callback clears the pending timeout and arms a new one
notify ==
    observerTimeout' =
        IF installed
        THEN Append(clearTimeout(observerTimeout), newTimer(observerTimeout))
        ELSE observerTimeout

pageChanged ==
    /\ muts < MaxMut
    /\ muts' = muts + 1
    /\ openHist' = NoHist
    /\ UNCHANGED <<convSeen, ui, attempts, intervalActive, installed, lastConv,
                   highlightTimeouts>>

\* the page adds a user message inside the chat container (its identity, the
\* number of the page change that made it, is new)
AddNode ==
    /\ rootPresent
    /\ Len(dom) < MaxNodes
    /\ \E t \in PageTexts : dom' = Append(dom, Node(muts + 1, t))
    /\ notify
    /\ pageChanged
    /\ UNCHANGED <<loc, rootPresent>>

\* the page re-renders the text of a message in place (its attributes stay);
\* the observer watches childList and subtree only, so it is notified when the
\* page replaces the text node and not when it rewrites the text node's data
SetText ==
    /\ rootPresent
    /\ \E i \in 1..Len(dom) : \E t \in PageTexts \ {dom[i].text} :
           dom' = [dom EXCEPT ![i].text = t]
    /\ (notify \/ UNCHANGED observerTimeout)
    /\ pageChanged
    /\ UNCHANGED <<loc, rootPresent>>

\* the page removes a message
RemoveNode ==
    /\ rootPresent
    /\ \E i \in 1..Len(dom) :
           dom' = SubSeq(dom, 1, i - 1) \o SubSeq(dom, i + 1, Len(dom))
    /\ notify
    /\ pageChanged
    /\ UNCHANGED <<loc, rootPresent>>

\* in-page navigation: the address changes, the document is not reloaded
Navigate ==
    /\ \E l \in Locations \ {loc} : loc' = l
    /\ pageChanged
    /\ UNCHANGED <<dom, rootPresent, observerTimeout>>

(* ------------------------------------------------------------------ *)
(* Timers                                                              *)
(* ------------------------------------------------------------------ *)

\* a plausible slip (the timer is left running): the interval stays active
clearIntervalNot(active) == active

\* clearInterval(interval)
clearInterval(active) == FALSE

\* a plausible slip (>= for >): the poll gives up one probe earlier
budgetExhaustedAtLeast(n) == n >= MaxAttempts

\* a plausible slip (the else-branch forgotten): the poll never gives up
budgetExhaustedNever(n) == FALSE

\* attempts > 40
budgetExhausted(n) == n > MaxAttempts

\* the setInterval callback of setupObserverAndHandlers, every 250ms
ReadinessTick ==
    /\ intervalActive
    /\ attempts' = attempts + 1
    /\ IF rootPresent
       THEN /\ intervalActive' = clearInterval(intervalActive)
            /\ installed' = TRUE
            /\ ariaExpanded' = ensureToggleButton(ariaExpanded)
            /\ initialSilentMark
            /\ lastConv' = getConversationKey(loc)
            /\ UNCHANGED <<display, list, observerTimeout>>
       ELSE /\ intervalActive' = IF budgetExhausted(attempts')
                                  THEN clearInterval(intervalActive)
                                  ELSE intervalActive
            /\ UNCHANGED <<dom, convSeen, ui, installed, observerTimeout, lastConv>>
    /\ UNCHANGED <<loc, rootPresent, muts, highlightTimeouts, openHist>>

\* a plausible slip (setInterval for setTimeout): a timeout that has fired
\* stays armed
expireNever(armed, t) == armed

\* a timeout that fires is spent
expire(armed, t) == SelectSeq(armed, LAMBDA x : x # t)

\* the timeout t is armed
isArmed(armed, t) == \E k \in 1..Len(armed) : armed[k] = t

\* the debounce timeout t of the MutationObserver fires, 250ms after it was
\* armed
TimeoutFires(t) ==
    /\ isArmed(observerTimeout, t)
    /\ observerTimeout' = expire(observerTimeout, t)
    /\ appendNewMessagesForCurrentConv
    /\ UNCHANGED <<loc, rootPresent, muts, attempts, intervalActive, installed,
                   lastConv, highlightTimeouts>>

\* a debounce timeout of the MutationObserver fires
WatcherFire == \E t \in TimerIds : TimeoutFires(t)

\* a plausible slip (the poll compares the key with itself): no change is seen
keyChangedNever(cur, last) == FALSE

\* cur !== lastConv
keyChanged(cur, last) == cur # last

\* the 800ms conversation poll
ConvPollTick ==
    /\ installed
    /\ LET cur == getConversationKey(loc)
       IN  IF keyChanged(cur, lastConv)
           THEN /\ lastConv' = cur
                /\ initialSilentMark
                /\ list' = IF display = "no-sidebar" THEN list ELSE clearList(list)
           ELSE UNCHANGED <<lastConv, dom, convSeen, list>>
    /\ UNCHANGED <<loc, rootPresent, muts, ariaExpanded, display, attempts,
                   intervalActive, installed, observerTimeout, highlightTimeouts,
                   openHist>>

(* ------------------------------------------------------------------ *)
(* The user                                                            *)
(* ------------------------------------------------------------------ *)

uiFrame == UNCHANGED <<loc, rootPresent, muts, timers, highlightTimeouts>>

\* click on #cgpn-toggle
ClickToggle ==
    /\ ariaExpanded # "no-button"
    /\ toggleSidebar(~(ariaExpanded = "true"))
    /\ uiFrame

\* click on #chatgpt-navigator-close (the panel is displayed)
ClickClose ==
    /\ display = "block"
    /\ toggleSidebar(FALSE)
    /\ uiFrame

\* click outside the panel and the toggle button
ClickOutside ==
    /\ installed
    /\ IF display = "no-sidebar" \/ ariaExpanded = "no-button"
       THEN UNCHANGED <<dom, convSeen, ui, openHist>>
       ELSE toggleSidebar(FALSE)
    /\ uiFrame

\* keydown with key "Escape"
PressEscape ==
    /\ installed
    /\ toggleSidebar(FALSE)
    /\ uiFrame

\* target.style.boxShadow = "0 0 0 4px rgba(255,200,0,0.6)"
Highlight == <<"0 0 0 4px rgba(255,200,0,0.6)">>

\* most highlight timeouts armed at once
MaxPending == 2

\* document.getElementById(q.id) || q.element: the position in the document
\* of the element the entry's click handler highlights (the first element
\* with the item's id, an empty id finding nothing; failing that, the
\* retained node), or 0 when the retained node is no longer in the document
clickTarget(d, entry) ==
    LET byId  == {i \in 1..Len(d) : entry.qid # None /\ d[i].id = entry.qid}
        byRef == {i \in 1..Len(d) : d[i].nid = entry.element}
    IN  IF byId # {} THEN CHOOSE i \in byId : \A j \in byId : i <= j
        ELSE IF byRef # {} THEN CHOOSE i \in byRef : TRUE
        ELSE 0

\* a plausible slip (no stopPropagation, and the document's handler does not
\* look at the target): every click closes the panel
documentClosesAlways(target) == TRUE

\* a click on target reaches the document's click handler and that handler
\* closes the panel: no handler on the way stops the propagation (the entry's
\* does, line 207, and the sidebar's, line 160) and the target is outside the
\* sidebar and the toggle button (lines 321-325)
documentCloses(target) ==
    /\ target \notin {"entry", "sidebar"}
    /\ target \notin {"entry", "sidebar", "toggle"}

\* click on an entry of the list (the panel is displayed); scrollIntoView or
\* the style assignments may throw, which the handler catches
ClickEntry ==
    /\ display = "block"
    /\ \E i \in 1..Len(list) : \E throws \in BOOLEAN :
           /\ list[i].cls = "nav-item"
           /\ LET k == clickTarget(dom, list[i])
              IN  IF throws \/ k = 0
                  THEN UNCHANGED <<dom, highlightTimeouts>>
                  ELSE /\ Len(highlightTimeouts) < MaxPending
                       /\ dom' = [dom EXCEPT ![k].boxShadow = Highlight]
                       /\ highlightTimeouts' =
                              Append(highlightTimeouts,
                                     [nid |-> dom[k].nid, prev |-> dom[k].boxShadow])
    /\ IF documentCloses("entry")
       THEN toggleSidebar(FALSE)
       ELSE UNCHANGED <<convSeen, ui, openHist>>
    /\ UNCHANGED <<loc, rootPresent, muts, timers>>

\* the oldest highlight timeout fires, 900ms after its click (the timeouts
\* all wait 900ms, so they fire in the order they were armed):
\* target.style.boxShadow = prev || ""
HighlightFires ==
    /\ highlightTimeouts # <<>>
    /\ LET h == Head(highlightTimeouts)
       IN  dom' = [i \in 1..Len(dom) |->
                     IF dom[i].nid = h.nid
                     THEN [dom[i] EXCEPT !.boxShadow = h.prev]
                     ELSE dom[i]]
    /\ highlightTimeouts' = Tail(highlightTimeouts)
    /\ UNCHANGED <<loc, rootPresent, muts, convSeen, ui, timers, openHist>>

Next ==
    \/ AddNode
    \/ SetText
    \/ RemoveNode
    \/ Navigate
    \/ ReadinessTick
    \/ WatcherFire
    \/ ConvPollTick
    \/ ClickToggle
    \/ ClickClose
    \/ ClickOutside
    \/ PressEscape

Spec == Init /\ [][Next]_vars

(* ------------------------------------------------------------------ *)
(* A page that is already full when the script starts, and does not    *)
(* change: the scanner and the merge on texts beyond the length caps   *)
(* ------------------------------------------------------------------ *)

\* most user-message nodes of the unchanging page
ScanNodes == 2

RECURSIVE ScanDoms(_)
ScanDoms(n) ==
    IF n = 0 THEN {<<>>}
    ELSE LET shorter == ScanDoms(n - 1)
         IN  shorter \cup {Append(d, Node(Len(d) + 1, t)) :
                             d \in {e \in shorter : Len(e) = n - 1}, t \in ScanTexts}

InitScan ==
    /\ dom \in ScanDoms(ScanNodes)
    /\ loc \in Locations
    /\ rootPresent = TRUE
    /\ muts = MaxMut
    /\ convSeen = <<>>
    /\ ariaExpanded = "no-button"
    /\ display = "no-sidebar"
    /\ list = <<>>
    /\ attempts = 0
    /\ intervalActive = TRUE
    /\ installed = FALSE
    /\ observerTimeout = NoTimeout
    /\ lastConv = None
    /\ highlightTimeouts = <<>>
    /\ openHist = NoHist

NextScan ==
    \/ ReadinessTick
    \/ ConvPollTick
    \/ ClickToggle
    \/ ClickClose
    \/ ClickOutside
    \/ PressEscape

SpecScan == InitScan /\ [][NextScan]_vars

(* ------------------------------------------------------------------ *)
(* A page that re-renders a message without end (a streaming answer    *)
(* pushes the conversation around): notifications are not bounded      *)
(* ------------------------------------------------------------------ *)

\* the page replaces the text of a message, as it may do again and again; the
\* replaced text node is a childList change, of which the observer is notified
Restream ==
    /\ rootPresent
    /\ \E i \in 1..Len(dom) : \E t \in PageTexts \ {dom[i].text} :
           dom' = [dom EXCEPT ![i].text = t]
    /\ notify
    /\ openHist' = NoHist
    /\ UNCHANGED <<loc, rootPresent, muts, convSeen, ui, attempts,
                   intervalActive, installed, lastConv, highlightTimeouts>>

InitStream ==
    /\ dom \in {<<Node(1, t)>> : t \in PageTexts}
    /\ loc = StartLocation
    /\ rootPresent = TRUE
    /\ muts = MaxMut
    /\ convSeen = <<>>
    /\ ariaExpanded = "no-button"
    /\ display = "no-sidebar"
    /\ list = <<>>
    /\ attempts = 0
    /\ intervalActive = TRUE
    /\ installed = FALSE
    /\ observerTimeout = NoTimeout
    /\ lastConv = None
    /\ highlightTimeouts = <<>>
    /\ openHist = NoHist

NextStream ==
    \/ Restream
    \/ ReadinessTick
    \/ WatcherFire
    \/ ClickToggle
    \/ ClickClose

\* a timeout that stays armed fires: each setTimeout callback runs 250ms after
\* its timeout was armed unless the timeout is cleared first
SpecStream ==
    /\ InitStream
    /\ [][NextStream]_vars
    /\ \A t \in TimerIds : WF_vars(TimeoutFires(t))

(* ------------------------------------------------------------------ *)
(* A user who moves between two conversations without end: the address *)
(* changes are not bounded                                             *)
(* ------------------------------------------------------------------ *)

\* in-page navigation, as the user may do again and again; the address is not
\* part of the observed subtree
Renavigate ==
    /\ \E l \in Locations \ {loc} : loc' = l
    /\ openHist' = NoHist
    /\ UNCHANGED <<dom, rootPresent, muts, convSeen, ui, timers, highlightTimeouts>>

InitPoll ==
    /\ dom \in {<<Node(1, t)>> : t \in PageTexts}
    /\ loc = StartLocation
    /\ rootPresent = TRUE
    /\ muts = MaxMut - 1
    /\ convSeen = <<>>
    /\ ariaExpanded = "no-button"
    /\ display = "no-sidebar"
    /\ list = <<>>
    /\ attempts = 0
    /\ intervalActive = TRUE
    /\ installed = FALSE
    /\ observerTimeout = NoTimeout
    /\ lastConv = None
    /\ highlightTimeouts = <<>>
    /\ openHist = NoHist

NextPoll ==
    \/ Renavigate
    \/ AddNode
    \/ ReadinessTick
    \/ WatcherFire
    \/ ConvPollTick
    \/ ClickToggle
    \/ ClickClose

\* the setInterval callback of the conversation poll runs every 800ms for as
\* long as the page lives
SpecPoll ==
    /\ InitPoll
    /\ [][NextPoll]_vars
    /\ WF_vars(ConvPollTick)

(* ------------------------------------------------------------------ *)
(* A host page that is still loading when the script starts: the chat  *)
(* container does not exist yet, and appears at any moment or never    *)
(* ------------------------------------------------------------------ *)

\* the host page creates the chat container (main, [role="main"] or a div
\* whose class contains "chat")
RootAppears ==
    /\ ~rootPresent
    /\ rootPresent' = TRUE
    /\ UNCHANGED <<dom, loc, muts, convSeen, ui, timers, highlightTimeouts, openHist>>

InitBoot ==
    /\ dom \in {<<Node(1, t)>> : t \in PageTexts}
    /\ loc = StartLocation
    /\ rootPresent = FALSE
    /\ muts = MaxMut - 1
    /\ convSeen = <<>>
    /\ ariaExpanded = "no-button"
    /\ display = "no-sidebar"
    /\ list = <<>>
    /\ attempts = 0
    /\ intervalActive = TRUE
    /\ installed = FALSE
    /\ observerTimeout = NoTimeout
    /\ lastConv = None
    /\ highlightTimeouts = <<>>
    /\ openHist = NoHist

NextBoot ==
    \/ RootAppears
    \/ AddNode
    \/ Navigate
    \/ ReadinessTick
    \/ WatcherFire
    \/ ConvPollTick
    \/ ClickToggle
    \/ ClickClose
    \/ ClickOutside
    \/ PressEscape

\* the setInterval callback of the readiness poll runs every 250ms until the
\* interval is cleared
SpecBoot ==
    /\ InitBoot
    /\ [][NextBoot]_vars
    /\ WF_vars(ReadinessTick)

(* ------------------------------------------------------------------ *)
(* A user who clicks the entries of the panel; the host page refuses   *)
(* an id to some messages                                              *)
(* ------------------------------------------------------------------ *)

InitClick ==
    /\ dom \in {<<HostNode(1, t, FALSE, li)>> : t \in PageTexts, li \in BOOLEAN}
    /\ loc = StartLocation
    /\ rootPresent = TRUE
    /\ muts = MaxMut - 1
    /\ convSeen = <<>>
    /\ ariaExpanded = "no-button"
    /\ display = "no-sidebar"
    /\ list = <<>>
    /\ attempts = 0
    /\ intervalActive = TRUE
    /\ installed = FALSE
    /\ observerTimeout = NoTimeout
    /\ lastConv = None
    /\ highlightTimeouts = <<>>
    /\ openHist = NoHist

NextClick ==
    \/ AddNode
    \/ RemoveNode
    \/ ReadinessTick
    \/ WatcherFire
    \/ ClickToggle
    \/ ClickClose
    \/ ClickEntry
    \/ HighlightFires

SpecClick == InitClick /\ [][NextClick]_vars

(* ------------------------------------------------------------------ *)
(* A host page on whose messages setAttribute or the assignment to id  *)
(* may throw, and which does not change                                *)
(* ------------------------------------------------------------------ *)

\* most user-message nodes of that page
TagNodes == 2

RECURSIVE TagDoms(_)
TagDoms(n) ==
    IF n = 0 THEN {<<>>}
    ELSE LET shorter == TagDoms(n - 1)
         IN  shorter \cup {Append(d, HostNode(Len(d) + 1, t, ls, li)) :
                             d \in {e \in shorter : Len(e) = n - 1},
                             t \in PageTexts, ls \in BOOLEAN, li \in BOOLEAN}

InitTag ==
    /\ dom \in TagDoms(TagNodes)
    /\ loc \in Locations
    /\ rootPresent = TRUE
    /\ muts = MaxMut
    /\ convSeen = <<>>
    /\ ariaExpanded = "no-button"
    /\ display = "no-sidebar"
    /\ list = <<>>
    /\ attempts = 0
    /\ intervalActive = TRUE
    /\ installed = FALSE
    /\ observerTimeout = NoTimeout
    /\ lastConv = None
    /\ highlightTimeouts = <<>>
    /\ openHist = NoHist

SpecTag == InitTag /\ [][NextScan]_vars

(* ------------------------------------------------------------------ *)
(* A script started at any address of the site                         *)
(* ------------------------------------------------------------------ *)

\* longest pathname, in tokens
MaxPath == 5

\* the tokens of a pathname: the separator and three segments
PathTokens == {"/", "chat", "c", "k1"}

\* the pathnames of up to n tokens: they start with the separator, and two
\* segments are never adjacent
RECURSIVE PathsUpTo(_)
PathsUpTo(n) ==
    IF n = 1 THEN {<<"/">>}
    ELSE LET shorter == PathsUpTo(n - 1)
             longer  == {Append(q, t) : q \in {e \in shorter : Len(e) = n - 1},
                                        t \in PathTokens}
         IN  shorter \cup {r \in longer : r[n] = "/" \/ r[n - 1] = "/"}

KeyPaths == PathsUpTo(MaxPath)

InitKey ==
    /\ dom = <<Node(1, <<97>>)>>
    /\ loc \in KeyPaths
    /\ rootPresent = TRUE
    /\ muts = MaxMut
    /\ convSeen = <<>>
    /\ ariaExpanded = "no-button"
    /\ display = "no-sidebar"
    /\ list = <<>>
    /\ attempts = 0
    /\ intervalActive = TRUE
    /\ installed = FALSE
    /\ observerTimeout = NoTimeout
    /\ lastConv = None
    /\ highlightTimeouts = <<>>
    /\ openHist = NoHist

NextKey ==
    \/ Renavigate
    \/ ReadinessTick
    \/ ConvPollTick
    \/ ClickToggle
    \/ ClickClose

SpecKey == InitKey /\ [][NextKey]_vars

(* ------------------------------------------------------------------ *)
(* strHashHex applied to any string                                    *)
(* ------------------------------------------------------------------ *)

\* longest hashed string, in UTF-16 code units
MaxHashLen == 5

\* the code units of the hashed strings: NUL, "a", U+20AC, U+FFFF
HashCodes == {0, 97, 8364, 65535}

\* every string of up to MaxHashLen of these code units
HashTexts == UNION {[1..n -> HashCodes] : n \in 0..MaxHashLen}

InitHash ==
    /\ dom \in {<<Node(1, t)>> : t \in HashTexts}
    /\ loc = StartLocation
    /\ rootPresent = TRUE
    /\ muts = MaxMut
    /\ convSeen = <<>>
    /\ ariaExpanded = "no-button"
    /\ display = "no-sidebar"
    /\ list = <<>>
    /\ attempts = 0
    /\ intervalActive = TRUE
    /\ installed = FALSE
    /\ observerTimeout = NoTimeout
    /\ lastConv = None
    /\ highlightTimeouts = <<>>
    /\ openHist = NoHist

\* signature = "s_" + strHashHex(norm), the string taken as it is
ApplyHash ==
    /\ dom[1].sig = None
    /\ dom' = <<[dom[1] EXCEPT !.sig = signatureOf(dom[1].text)]>>
    /\ UNCHANGED <<loc, rootPresent, muts, convSeen, ui, timers, highlightTimeouts,
                   openHist>>

NextHash == ApplyHash

SpecHash == InitHash /\ [][NextHash]_vars

(* ------------------------------------------------------------------ *)
(* Vocabulary of the properties                                        *)
(* ------------------------------------------------------------------ *)

\* the conversation key of the current address
CurKey == getConversationKey(loc)

\* what a scan of the current page returns
ScanNow == getAllMessagesForCurrentConv(dom, CurKey)

\* the entries of a list that are messages, in order
ItemsOf(lst) == SelectSeq(lst, LAMBDA e : e.cls = "nav-item")

\* the panel is displayed
IsOpen == display = "block"

\* the signatures of the message entries of a list
SigSet(lst) == {lst[i].signature : i \in {k \in 1..Len(lst) : lst[k].cls = "nav-item"}}

\* no two message entries of a list share a signature
NoRepeat(lst) ==
    \A i, j \in 1..Len(lst) :
        (i # j /\ lst[i].cls = "nav-item" /\ lst[j].cls = "nav-item")
            => lst[i].signature # lst[j].signature

\* the nodes of a page that a scan does not skip
Inked(d) == {i \in 1..Len(d) : \E k \in 1..Len(d[i].text) : ~isSpace(d[i].text[k])}

\* the signatures carried by the non-empty user-message nodes of a page
DomSignatures(d) == {d[i].sig : i \in Inked(d)}

\* the ids carried by the user-message nodes of a page
NodeIds(d) == {d[i].id : i \in 1..Len(d)} \ {None}

\* a is an initial segment of b
IsPrefix(a, b) == Len(a) <= Len(b) /\ \A i \in 1..Len(a) : a[i] = b[i]

\* two keys one of which is an initial segment of the other (equal keys too)
PrefixRelated(a, b) == IsPrefix(a, b) \/ IsPrefix(b, a)

\* the first 200 units of an item's normalized text
MergeKey(it) ==
    [i \in 1..(IF Len(it.norm) < KeyCap THEN Len(it.norm) ELSE KeyCap) |-> it.norm[i]]

\* the positions among the first n items that the near-duplicate merge is
\* specified to keep: a position is kept unless a kept earlier one is
\* prefix-related to it
RECURSIVE KeptUpTo(_, _)
KeptUpTo(items, n) ==
    IF n = 0 THEN {}
    ELSE LET K == KeptUpTo(items, n - 1)
         IN  IF \E j \in K : PrefixRelated(MergeKey(items[j]), MergeKey(items[n]))
             THEN K
             ELSE K \cup {n}

Kept(items) == KeptUpTo(items, Len(items))

\* the subsequence of items at the positions K
SubseqAt(items, K) ==
    LET idx == SelectSeq([i \in 1..Len(items) |-> i], LAMBDA i : i \in K)
    IN  [k \in 1..Len(idx) |-> items[idx[k]]]

\* the signatures a rebuild of the page d (tagged: dAfter) under key is to
\* render: those of the kept items whose entry id is not a node's id
RebuildSigSet(d, key, dAfter) ==
    LET all == getAllMessagesForCurrentConv(d, key)
    IN  {all[i].signature :
            i \in {k \in Kept(all) : itemDomIdFor(all[k].signature) \notin NodeIds(dAfter)}}

\* a step that opens the panel
OpenStep == display # "block" /\ display' = "block"

(* ------------------------------------------------------------------ *)
(* C1                                                                  *)
(* ------------------------------------------------------------------ *)

\* C1: in every reachable state the rendered list holds no two entries with
\* the same signature.
C1_NoDuplicateSignature ==
    \A i, j \in 1..Len(list) :
        (i # j /\ list[i].cls = "nav-item" /\ list[j].cls = "nav-item")
            => list[i].signature # list[j].signature

\* C1 witness: the panel was opened on a page where two messages that the merge
\* both keeps carry the same signature (one was tagged before its text changed),
\* and that signature is rendered.
C1_Witness ==
    /\ IsOpen
    /\ openHist.n >= 1
    /\ \E i, j \in 1..Len(ScanNow) :
           /\ i < j
           /\ ScanNow[i].signature = ScanNow[j].signature
           /\ ~isDuplicateOf(keyOf(ScanNow[i]), keyOf(ScanNow[j]))
           /\ \E k \in 1..Len(list) : list[k].signature = ScanNow[i].signature

(* ------------------------------------------------------------------ *)
(* C2                                                                  *)
(* ------------------------------------------------------------------ *)

\* C2 as stated: whenever the panel is opened (from closed), the list holds
\* exactly one entry for each distinct signature carried by a non-empty
\* user-message node of the page, and no more entries than the first open on
\* this unchanged page rendered.
C2_Original ==
    [][OpenStep =>
          /\ SigSet(list') = DomSignatures(dom')
          /\ NoRepeat(list')
          /\ (openHist.n >= 1 => Len(ItemsOf(list')) <= Len(openHist.sigs))]_vars

\* C2 amended: whenever the panel is opened, the list holds exactly one entry
\* for each distinct signature of an item that the near-duplicate merge keeps
\* and whose entry id is not the id of a user-message node, and no other
\* entry; an open on an unchanged page never renders more entries than the
\* first open did.
C2_Amended ==
    [][OpenStep =>
          /\ SigSet(list') = RebuildSigSet(dom, CurKey, dom')
          /\ NoRepeat(list')
          /\ (openHist.n >= 1 => Len(ItemsOf(list')) <= Len(openHist.sigs))]_vars

\* C2 witness: the panel is open after a close/open cycle on an unchanged page,
\* with an entry, while the page carries more signatures than are rendered.
C2_Witness ==
    /\ IsOpen
    /\ openHist.n >= 2
    /\ ItemsOf(list) # <<>>
    /\ Cardinality(SigSet(list)) < Cardinality(DomSignatures(dom))

(* ------------------------------------------------------------------ *)
(* C3                                                                  *)
(* ------------------------------------------------------------------ *)

\* C3: on a page that has not changed (no node added, changed or removed, no
\* navigation) since an earlier open, every open renders the same ordered list
\* of signatures as that first open.
C3_OpenIdempotent ==
    [][(OpenStep /\ openHist.n >= 1) => RenderedSigs(list') = openHist.sigs]_vars

\* C3 witness: the panel is open for the MaxOpens-th time on the unchanged
\* page, with entries, the same as the first open rendered.
C3_Witness ==
    /\ IsOpen
    /\ openHist.n = MaxOpens
    /\ RenderedSigs(list) # <<>>
    /\ RenderedSigs(list) = openHist.sigs

(* ------------------------------------------------------------------ *)
(* C4                                                                  *)
(* ------------------------------------------------------------------ *)

NormalizedText(it) == normalizeText(it.rawText)

\* C5 as stated: in every reachable state, a scan gives any two user-message
\* nodes whose normalized text is identical the same signature.
C5_Original ==
    \A i, j \in 1..Len(ScanNow) :
        NormalizedText(ScanNow[i]) = NormalizedText(ScanNow[j])
            => ScanNow[i].signature = ScanNow[j].signature

\* the items of a scan of the current page, each with its node's attribute
\* before the scan
UntaggedItems ==
    {it \in {ScanNow[i] : i \in 1..Len(ScanNow)} :
        \E k \in 1..Len(dom) : dom[k].nid = it.element /\ dom[k].sig = None}

\* C5 amended: in every reachable state, a scan gives any two user-message
\* nodes that carry no signature attribute yet and whose normalized text is
\* identical the same signature.
C5_Amended ==
    \A a, b \in UntaggedItems :
        NormalizedText(a) = NormalizedText(b) => a.signature = b.signature

\* C5 witness: a page with two untagged nodes of different raw text and the
\* same normalized text, and a tagged node, all scanned.
C5_Witness ==
    /\ \E a, b \in UntaggedItems :
           a.rawText # b.rawText /\ NormalizedText(a) = NormalizedText(b)
    /\ \E k \in 1..Len(dom) : dom[k].sig # None

(* ------------------------------------------------------------------ *)
(* C6                                                                  *)
(* ------------------------------------------------------------------ *)

\* a text between its first and last non-space unit, each run of white space
\* counted as one space and each letter taken without its case
Shape(s) ==
    LET ink  == {i \in 1..Len(s) : ~isSpace(s[i])}
        keep == SelectSeq([i \in 1..Len(s) |-> i],
                          LAMBDA i : \/ i \in ink
                                     \/ (i - 1) \in ink /\ \E k \in ink : k > i)
    IN  [k \in 1..Len(keep) |->
            IF isSpace(s[keep[k]]) THEN 32
            ELSE IF s[keep[k]] \in 65..90 THEN s[keep[k]] + 32 ELSE s[keep[k]]]

\* two different raw texts that differ only in letter case and in the amount
\* of white space
DifferOnlyInCaseAndSpace(s, t) == s # t /\ Shape(s) = Shape(t)

\* the pairs of positions i < j of not-yet-tagged, non-empty nodes whose raw
\* texts differ only in letter case and amount of white space
CaseSpacePairs ==
    {p \in (1..Len(dom)) \X (1..Len(dom)) :
        /\ p[1] < p[2]
        /\ p[1] \in Inked(dom) /\ p[2] \in Inked(dom)
        /\ dom[p[1]].sig = None /\ dom[p[2]].sig = None
        /\ DifferOnlyInCaseAndSpace(dom[p[1]].text, dom[p[2]].text)}

\* the item a scan of the current page returns for the node at position i
ItemAt(i) == itemOf(dom[i], CurKey)

\* the node identities of the items the merge keeps from a scan of the page
MergedElements ==
    LET u == uniqueOrdered(ScanNow) IN {u[k].element : k \in 1..Len(u)}

\* C6 as stated: two not-yet-tagged nodes whose raw texts differ only in case
\* and amount of white space get the same signature, and the scan followed by
\* the merge yields exactly one entry for them.
C6_Original ==
    \A p \in CaseSpacePairs :
        /\ ItemAt(p[1]).signature = ItemAt(p[2]).signature
        /\ Cardinality({dom[p[1]].nid, dom[p[2]].nid} \cap MergedElements) = 1

\* C6 amended: two such nodes get the same signature, and the scan followed by
\* the merge yields at most one entry for them: the first of the two, unless an
\* item accepted before it has a key prefix-related to theirs, and then none.
C6_Amended ==
    \A p \in CaseSpacePairs :
        /\ ItemAt(p[1]).signature = ItemAt(p[2]).signature
        /\ dom[p[2]].nid \notin MergedElements
        /\ (dom[p[1]].nid \in MergedElements
              <=> ~\E k \in Inked(dom) :
                      /\ k < p[1]
                      /\ dom[k].nid \in MergedElements
                      /\ PrefixRelated(MergeKey(ItemAt(k)), MergeKey(ItemAt(p[1]))))

\* C6 witness: a scanned page with such a pair of which the merge keeps the
\* first, shown in the open panel.
C6_Witness ==
    /\ IsOpen
    /\ \E k \in 1..Len(list) : \E j \in 1..Len(dom) :
           /\ list[k].element = dom[j].nid
           /\ \E i \in (j + 1)..Len(dom) :
                  /\ DifferOnlyInCaseAndSpace(dom[j].text, dom[i].text)
                  /\ dom[i].sig = dom[j].sig
                  /\ \A m \in 1..Len(list) : list[m].element # dom[i].nid

(* ------------------------------------------------------------------ *)
(* C7                                                                  *)
(* ------------------------------------------------------------------ *)

\* the seen set of a key, empty while the registry has none for it
SeenNow(key) == IF key \in DOMAIN convSeen THEN convSeen[key] ELSE {}

\* the items of a scan of the current page whose signature is not in the seen
\* set of the current key
UnseenNow == SelectSeq(ScanNow, LAMBDA it : it.signature \notin SeenNow(CurKey))

\* a watcher scan decides what is new from the seen set of the current key
\* alone: the first item not in that set is marked seen under that key
\* whatever other keys' sets hold, nothing else than such items is marked,
\* and no other key's set changes
WatcherUsesOwnSetOnly ==
    WatcherFire =>
        /\ UnseenNow # <<>> => UnseenNow[1].signature \in convSeen'[CurKey]
        /\ convSeen'[CurKey] \subseteq SeenNow(CurKey) \cup signaturesOf(UnseenNow)
        /\ \A A \in DOMAIN convSeen \ {CurKey} :
               A \in DOMAIN convSeen' /\ convSeen'[A] = convSeen[A]

\* C7 as stated: detection under the current key depends only on that key's
\* seen set, and a signature in another key's seen set is rendered when the
\* panel is opened while a message of the page carries it.
C7_Original ==
    [][/\ WatcherUsesOwnSetOnly
       /\ OpenStep =>
            \A A \in DOMAIN convSeen \ {CurKey} : \A sg \in convSeen[A] :
                sg \in DomSignatures(dom') => sg \in SigSet(list')]_vars

\* C7 amended: detection under the current key depends only on that key's
\* seen set, and a signature in another key's seen set is rendered when the
\* panel is opened while the page holds an item carrying it that the
\* near-duplicate merge keeps and whose entry id is not a node's id.
C7_Amended ==
    [][/\ WatcherUsesOwnSetOnly
       /\ OpenStep =>
            \A A \in DOMAIN convSeen \ {CurKey} : \A sg \in convSeen[A] :
                sg \in RebuildSigSet(dom, CurKey, dom') => sg \in SigSet(list')]_vars

\* C7 witness: the open panel shows, rendered under the current key, a
\* signature that was marked seen under another key and that a watcher scan
\* found new under the current key.
C7_Witness ==
    /\ IsOpen
    /\ \E A \in DOMAIN convSeen \ {CurKey} : \E k \in 1..Len(list) :
           /\ list[k].cls = "nav-item"
           /\ list[k].conv = CurKey
           /\ list[k].signature \in convSeen[A]
           /\ k > 1

(* ------------------------------------------------------------------ *)
(* C8                                                                  *)
(* ------------------------------------------------------------------ *)

\* the signatures of the items of a sequence, in order
SigsOf(items) == [i \in 1..Len(items) |-> items[i].signature]

\* the items of a sequence that get an entry when rendered into an empty list
\* on the page d: those whose entry id is not a node's id and whose signature
\* no earlier item of the sequence has
Renderable(items, d) ==
    SubseqAt(items,
             {i \in 1..Len(items) :
                 /\ itemDomIdFor(items[i].signature) \notin NodeIds(d)
                 /\ \A j \in 1..(i - 1) : items[j].signature # items[i].signature})

\* C8 as stated: the toggle button opens a closed panel, the list becoming
\* exactly uniqueOrdered(scan of the page) with every rendered signature in the
\* seen set of the current key, and closes an open panel.
C8_Original ==
    [][ClickToggle =>
          IF IsOpen
          THEN display' # "block"
          ELSE /\ display' = "block"
               /\ RenderedSigs(list') = SigsOf(uniqueOrdered(ScanNow))
               /\ SigSet(list') \subseteq convSeen'[CurKey]]_vars

\* C8 amended: the toggle button opens a closed panel, the list becoming
\* uniqueOrdered(scan of the page) without the items whose entry id is already
\* the id of an element of the document (a user-message node, or an earlier
\* entry with the same signature), every rendered signature being in the seen
\* set of the current key; and it closes an open panel.
C8_Amended ==
    [][ClickToggle =>
          IF IsOpen
          THEN display' # "block"
          ELSE /\ display' = "block"
               /\ RenderedSigs(list') = SigsOf(Renderable(uniqueOrdered(ScanNow), dom'))
               /\ SigSet(list') \subseteq convSeen'[CurKey]]_vars

\* C8 witness: the panel was opened on a page where the merge keeps more items
\* than are rendered, and at least one is rendered.
C8_Witness ==
    /\ IsOpen
    /\ openHist.n >= 1
    /\ RenderedSigs(list) # <<>>
    /\ Len(uniqueOrdered(ScanNow)) > Len(RenderedSigs(list))
    /\ RenderedSigs(list) = SigsOf(Renderable(uniqueOrdered(ScanNow), dom))

(* ------------------------------------------------------------------ *)
(* C9                                                                  *)
(* ------------------------------------------------------------------ *)

\* C9: every close trigger (the toggle button on an open panel, the panel's
\* close button, a click outside, Escape) leaves the panel closed with an empty
\* list, and whenever the panel is closed the list is empty.
C9_ClosedMeansEmpty ==
    /\ [](~IsOpen => list = <<>>)
    /\ [][(\/ ClickToggle /\ IsOpen
           \/ ClickClose
           \/ ClickOutside
           \/ PressEscape) => (display' # "block" /\ list' = <<>>)]_vars

\* C9 witness: the panel is closed and empty after an open that rendered
\* entries on the page as it is now.
C9_Witness ==
    /\ display = "none"
    /\ list = <<>>
    /\ openHist.n >= 1
    /\ openHist.sigs # <<>>

(* ------------------------------------------------------------------ *)
(* C10                                                                 *)
(* ------------------------------------------------------------------ *)

\* C10: while the panel is open, a watcher scan keeps the entries of the list
\* as they are, in their order, and every entry it adds after them has a
\* signature that was not in the seen set of the current key before the scan.
C10_WatcherOnlyAppendsUnseen ==
    [][(WatcherFire /\ IsOpen) =>
          /\ Len(list') >= Len(list)
          /\ \A k \in 1..Len(list) : list'[k] = list[k]
          /\ \A k \in (Len(list) + 1)..Len(list') :
                 /\ list'[k].cls = "nav-item"
                 /\ list'[k].signature \notin SeenNow(CurKey)]_vars

\* C10 witness: the open panel holds, after earlier entries, an entry for the
\* node the latest page change created, and no open has happened since that
\* change: a watcher scan appended it.
C10_Witness ==
    /\ IsOpen
    /\ openHist.n = 0
    /\ observerTimeout = NoTimeout
    /\ Len(list) >= 2
    /\ list[Len(list)].cls = "nav-item"
    /\ list[Len(list)].element = muts
    /\ list[1].cls = "nav-item"
(* ------------------------------------------------------------------ *)
(* C11                                                                 *)
(* ------------------------------------------------------------------ *)

\* the texts of the user-message nodes of a page, in document order
TextsOf(d) == [i \in 1..Len(d) |-> d[i].text]

C12_RegistryOnlyGrows ==
    /\ [][\A k \in DOMAIN convSeen :
              k \in DOMAIN convSeen' /\ convSeen[k] \subseteq convSeen'[k]]_vars
    /\ [][(ConvPollTick /\ lastConv' # lastConv /\ lastConv \in DOMAIN convSeen)
              => convSeen'[lastConv] = convSeen[lastConv]]_vars
    /\ [](\A k \in DOMAIN convSeen :
              /\ ensureConvSet(convSeen, k) = convSeen
              /\ seenOf(convSeen, k) = convSeen[k])

\* C12 witness: the registry holds non-empty sets for two keys, the current
\* one populated by the conversation poll after the other.
C12_Witness ==
    /\ installed
    /\ lastConv = CurKey
    /\ \E A \in DOMAIN convSeen \ {CurKey} : convSeen[A] # {}
    /\ CurKey \in DOMAIN convSeen
    /\ convSeen[CurKey] # {}
(* ------------------------------------------------------------------ *)
(* C14                                                                 *)
(* ------------------------------------------------------------------ *)

\* the positions of the message entries of the rendered list
EntryPositions == {i \in 1..Len(list) : list[i].cls = "nav-item"}

\* C14 as stated: in every reachable state the rendered list holds only
\* entries rendered under the conversation key that is current; in
\* particular, entries rendered under another key never stand in the list
\* together with entries of the current key.  A state with both kinds of
\* entry breaks both halves.
C14_NoCrossChatLeakage ==
    ~\E i, j \in EntryPositions : list[i].conv = CurKey /\ list[j].conv # CurKey

(* ------------------------------------------------------------------ *)
(* C15                                                                 *)
(* ------------------------------------------------------------------ *)

\* C15 as stated: while the panel is open, no two entries rendered under the
\* current conversation key have merge keys (first 200 normalized units) that
\* are equal or one a prefix of the other.
C15_NoPrefixRelatedEntries ==
    IsOpen =>
        \A i, j \in EntryPositions :
            (i # j /\ list[i].conv = CurKey /\ list[j].conv = CurKey)
                => ~PrefixRelated(list[i].key, list[j].key)
(* ------------------------------------------------------------------ *)
(* C19                                                                 *)
(* ------------------------------------------------------------------ *)

\* a step in which the MutationObserver callback ran: a change of the page
\* that changed the armed timeouts
Notified == muts' # muts /\ observerTimeout' # observerTimeout

\* C19: at every moment at most one timeout of the watcher is armed; a
\* notification leaves exactly one armed, a new one, the one that was armed
\* being cancelled; and the scan that an expiry runs leaves none armed: so a
\* burst of notifications with no expiry in between is followed by one scan.
C19_SingleSlotDebounce ==
    /\ [](Len(observerTimeout) <= 1)
    /\ [][Notified =>
              /\ Len(observerTimeout') = 1
              /\ ~isArmed(observerTimeout, observerTimeout'[1])]_vars
    /\ [][WatcherFire => (observerTimeout # NoTimeout /\ observerTimeout' = NoTimeout)]_vars

\* C19 witness: a notification arrived while a timeout was armed: the armed
\* timeout is the second identity, which setTimeout returns only while the
\* first is armed.
C19_Witness ==
    /\ installed
    /\ observerTimeout = <<2>>
    /\ muts >= 2
(* ------------------------------------------------------------------ *)
(* C20                                                                 *)
(* ------------------------------------------------------------------ *)

\* C20 as stated: every notification (after which a timeout is armed) is
\* eventually followed by a watcher scan (after which none is armed), also
\* when notifications keep arriving.
C20_Original == (observerTimeout # NoTimeout) ~> (observerTimeout = NoTimeout)

\* C20 amended: every notification arms a timeout; every armed timeout
\* eventually either fires, running the watcher scan, or is replaced by the
\* timeout of a later notification, and it ends in no other way: the scan
\* follows once notifications stop arriving before the armed timeout expires.
C20_Amended ==
    /\ \A t \in TimerIds :
           isArmed(observerTimeout, t) ~> ~isArmed(observerTimeout, t)
    /\ [][\A t \in TimerIds :
              (isArmed(observerTimeout, t) /\ ~isArmed(observerTimeout', t))
                  => \/ TimeoutFires(t)
                     \/ Len(observerTimeout') = 1 /\ observerTimeout'[1] # t]_vars
    /\ [][(installed /\ Restream) => observerTimeout' # NoTimeout]_vars

\* C20 witness: a message tagged by a scan was re-rendered afterwards (its
\* text no longer hashes to its signature), which notified the observer, and
\* no timeout is armed any more: the scan has followed.
C20_Witness ==
    /\ installed
    /\ observerTimeout = NoTimeout
    /\ \E i \in 1..Len(dom) :
           /\ dom[i].sig # None
           /\ rawOf(dom[i]) # <<>>
           /\ dom[i].sig # signatureOf(normOf(dom[i]))

(* ------------------------------------------------------------------ *)
(* C13                                                                 *)
(* ------------------------------------------------------------------ *)

\* the conversation keys of the addresses of the universe
ConvKeys == {getConversationKey(l) : l \in Locations}

\* the poll runs its reset
PollReset == installed /\ lastConv' # lastConv

\* C13 as stated: every change of the conversation key is eventually detected
\* by the poll: once the installed feature is at a key k that is not the
\* last-known one, the poll eventually runs its reset for k, also when the
\* key changes again before the next tick.
C13_Original ==
    \A k \in ConvKeys :
        (installed /\ CurKey = k /\ lastConv # k) ~> (lastConv = k)

\* C13 amended: once the current key differs from the last-known one, the
\* poll eventually runs its reset for the key current at that tick, or the
\* key has returned to the last-known one before the tick (a key entered and
\* left between two ticks is never detected); a reset sets the last-known key
\* to the current one, marks the signatures of the messages in the DOM as
\* seen under it and empties the rendered list.
C13_Amended ==
    /\ (installed /\ lastConv # CurKey) ~> (lastConv = CurKey)
    /\ [][PollReset =>
              /\ lastConv' = CurKey
              /\ signaturesOf(ScanNow) \subseteq SeenNow(CurKey)'
              /\ list' = <<>>
              /\ UNCHANGED <<loc, ariaExpanded, display>>]_vars

\* C13 witness: the panel was opened in the conversation the script started
\* in, the address changed, and the poll has run its reset: the last-known
\* key is the new one, the open panel's list is empty and the messages in the
\* DOM are seen under the new key.
C13_Witness ==
    /\ installed
    /\ lastConv = CurKey
    /\ lastConv # getConversationKey(StartLocation)
    /\ IsOpen
    /\ list = <<>>
    /\ Len(dom) = 2
    /\ signaturesOf(ScanNow) # {}
    /\ signaturesOf(ScanNow) \subseteq SeenNow(CurKey)

(* ------------------------------------------------------------------ *)
(* C16                                                                 *)
(* ------------------------------------------------------------------ *)

\* every probe made so far has failed to find the chat container (a probe that
\* finds it installs the feature)
AllProbesFailed == ~installed

\* the readiness poll probes
Probes == attempts' # attempts

\* C16 as stated: after 40 consecutive probes that do not find the chat
\* container the poll timer is cancelled, and no further probe is made.
C16_Original == AllProbesFailed /\ attempts >= MaxAttempts => ~intervalActive

\* C16 amended: the readiness poll is bounded by 41 probes. While the probes
\* fail the timer stays active through the 40th, the 41st failing probe (the
\* first to find attempts > 40) cancels it, and no probe is made once the
\* timer is cancelled.
C16_Amended ==
    /\ [](attempts <= MaxAttempts + 1)
    /\ [](AllProbesFailed /\ attempts <= MaxAttempts => intervalActive)
    /\ [](AllProbesFailed /\ attempts = MaxAttempts + 1 => ~intervalActive)
    /\ [][Probes => intervalActive /\ attempts' = attempts + 1]_vars

\* C16 witness: the container never appeared, 41 probes have failed and the
\* timer is cancelled.
C16_Witness ==
    /\ ~rootPresent
    /\ AllProbesFailed
    /\ attempts = MaxAttempts + 1
    /\ ~intervalActive

(* ------------------------------------------------------------------ *)
(* C17                                                                 *)
(* ------------------------------------------------------------------ *)

\* the toggle button, the document handlers, the mutation watcher and the
\* conversation poll are installed
Installs == installed' # installed \/ (ariaExpanded = "no-button" /\ ariaExpanded' # "no-button")

\* C17: the readiness poll always terminates: eventually it has found the
\* chat container or exhausted its budget, and in both cases its timer is
\* cleared for good and it never probes again; the toggle button, document
\* handlers, mutation watcher and conversation poll are installed at most
\* once (by a probe, which clears the timer, and never undone).
C17_ReadinessPollTerminates ==
    /\ <>(~intervalActive /\ (installed \/ attempts > MaxAttempts))
    /\ [][~intervalActive => ~intervalActive' /\ attempts' = attempts]_vars
    /\ [][Installs =>
              /\ intervalActive /\ ~intervalActive'
              /\ ~installed /\ installed'
              /\ ariaExpanded = "no-button" /\ ariaExpanded' = "false"
              /\ Probes]_vars
    /\ [][installed => installed' /\ ariaExpanded' # "no-button"]_vars

\* C17 witness: the container appeared while the poll was running, a later
\* probe found it and installed the feature, the timer is cleared, and the
\* feature has been used since (the panel is open).
C17_Witness ==
    /\ installed
    /\ ~intervalActive
    /\ attempts > 1
    /\ attempts <= MaxAttempts
    /\ IsOpen

(* ------------------------------------------------------------------ *)
(* C18                                                                 *)
(* ------------------------------------------------------------------ *)

\* the budget is exhausted and no probe has found the chat container
GaveUp == ~installed /\ attempts > MaxAttempts

\* nothing of the feature exists: no toggle button, no panel, no handler,
\* watcher or conversation poll, no seen set, no tagged message
Inert ==
    /\ ~installed
    /\ ~intervalActive
    /\ ariaExpanded = "no-button"
    /\ display = "no-sidebar"
    /\ list = <<>>
    /\ convSeen = <<>>
    /\ observerTimeout = NoTimeout
    /\ lastConv = None
    /\ \A i \in 1..Len(dom) : dom[i].sig = None /\ dom[i].id = None

\* C18: if the chat container is not found within the attempt budget, the
\* feature stays inert forever, also when the container appears later: no
\* toggle button or panel, no handler, watcher or conversation poll, and an
\* empty seen registry.
C18_InertAfterGiveUp ==
    /\ [](GaveUp => Inert)
    /\ [][GaveUp => GaveUp']_vars

\* C18 witness: the poll gave up, the container appeared afterwards and the
\* page added a message to it, and nothing of the feature exists.
C18_Witness ==
    /\ GaveUp
    /\ rootPresent
    /\ Len(dom) = 2
    /\ Inert

(* ------------------------------------------------------------------ *)
(* C21                                                                 *)
(* ------------------------------------------------------------------ *)

\* C21: the click highlight is temporary: once all highlight timeouts have
\* fired, the box-shadow of every message is back to the value it had before
\* the first click (the page's messages start without a box-shadow and only
\* the click handler sets one).
C21_HighlightReverts ==
    highlightTimeouts = <<>> => \A i \in 1..Len(dom) : dom[i].boxShadow = None

(* ------------------------------------------------------------------ *)
(* C24                                                                 *)
(* ------------------------------------------------------------------ *)

\* C24: clicking a panel entry changes neither the panel state (it stays
\* open), nor the rendered list, nor the seen registry, whether the source
\* element is found by its id, only through the retained reference, not in
\* the document at all, or the scroll/highlight throws.
C24_EntryClickFrame ==
    [][ClickEntry => UNCHANGED <<display, ariaExpanded, list, convSeen>>]_vars

\* C24 witness: the panel is open, an entry whose item has no id (the page
\* refused it) was clicked and its message, found through the retained
\* reference, is highlighted.
C24_Witness ==
    /\ IsOpen
    /\ highlightTimeouts # <<>>
    /\ \E i \in 1..Len(list) : \E k \in 1..Len(dom) :
           /\ list[i].cls = "nav-item"
           /\ list[i].qid = None
           /\ list[i].element = dom[k].nid
           /\ dom[k].boxShadow = Highlight

(* ------------------------------------------------------------------ *)
(* C22                                                                 *)
(* ------------------------------------------------------------------ *)

\* C22: opening the panel when the DOM has no user-message node with
\* non-empty text renders exactly the placeholder and no entry.
C22_EmptyPageRendersPlaceholder ==
    [][(OpenStep /\ \A i \in 1..Len(dom) : trim(dom[i].text) = <<>>)
           => list' = <<EmptyEntry>>]_vars

\* C22 witness: the page holds a message of white space only, the panel is
\* open and its list is the placeholder alone.
C22_Witness ==
    /\ IsOpen
    /\ Len(dom) >= 1
    /\ \A i \in 1..Len(dom) : trim(dom[i].text) = <<>>
    /\ Len(list) = 1
    /\ list[1].cls = "nav-empty"

(* ------------------------------------------------------------------ *)
(* C30                                                                 *)
(* ------------------------------------------------------------------ *)

\* the list holds the placeholder
HasPlaceholder == \E i \in 1..Len(list) : list[i].cls = "nav-empty"

\* the list holds an entry
HasEntry == \E i \in 1..Len(list) : list[i].cls = "nav-item"

\* C30: whenever the panel is open, the placeholder is present exactly when
\* the list has no entry: the placeholder never coexists with an entry and
\* an open panel is never completely empty.
C30_PlaceholderIffNoEntry == IsOpen => (HasPlaceholder <=> ~HasEntry)

(* ------------------------------------------------------------------ *)
(* C23                                                                 *)
(* ------------------------------------------------------------------ *)

\* the nodes whose trimmed text is not empty, in document order
TextedNodes(d) == SelectSeq(d, LAMBDA n : trim(n.text) # <<>>)

\* C23: a failure to attach the signature attribute or the id to a node does
\* not abort the scan: the scan returns one item, in document order, for
\* every user-message node with non-empty text, whichever nodes fail to be
\* tagged; the item carries the signature computed for the node.
C23_TaggingFailureKeepsScan ==
    LET texted == TextedNodes(dom)
    IN  /\ Len(ScanNow) = Len(texted)
        /\ \A i \in 1..Len(texted) :
               /\ ScanNow[i].element = texted[i].nid
               /\ ScanNow[i].rawText = trim(texted[i].text)
               /\ ScanNow[i].signature =
                      IF texted[i].sig # None THEN texted[i].sig
                      ELSE signatureOf(slice(normalizeText(trim(texted[i].text)), NormCap))

\* C23 witness: the page has been scanned; on its first message setAttribute
\* threw (it carries no signature), on its second the id assignment threw
\* (it carries a signature and no id), and a scan returns an item for both.
C23_Witness ==
    /\ installed
    /\ Len(dom) = 2
    /\ dom[1].lockSig /\ dom[1].sig = None
    /\ dom[2].lockId /\ dom[2].id = None /\ dom[2].sig # None
    /\ Len(ScanNow) = 2
    /\ Len(list) = 2

(* ------------------------------------------------------------------ *)
(* C25                                                                 *)
(* ------------------------------------------------------------------ *)

\* C25: once a node carries a data-nav-signature attribute, the item every
\* later scan returns for the node carries that signature, whatever the
\* node's text has become; and no step overwrites an existing signature
\* attribute or an existing id of a node.
C25_AttachedSignatureSticks ==
    /\ [](\A i \in 1..Len(dom) : \A k \in 1..Len(ScanNow) :
              (dom[i].sig # None /\ ScanNow[k].element = dom[i].nid)
                  => ScanNow[k].signature = dom[i].sig)
    /\ [][\A i \in 1..Len(dom) : \A j \in 1..Len(dom') :
              dom'[j].nid = dom[i].nid
                  => /\ dom[i].sig # None => dom'[j].sig = dom[i].sig
                     /\ dom[i].id # None => dom'[j].id = dom[i].id]_vars

\* C25 witness: the text of a tagged message changed (its signature is no
\* longer the hash of its text), the panel was opened after that, and the
\* entry rendered for the message carries the attached signature.
C25_Witness ==
    /\ IsOpen
    /\ openHist.n >= 1
    /\ \E i \in 1..Len(dom) : \E e \in 1..Len(list) :
           /\ dom[i].sig # None
           /\ trim(dom[i].text) # <<>>
           /\ dom[i].sig # signatureOf(slice(normalizeText(trim(dom[i].text)), NormCap))
           /\ list[e].cls = "nav-item"
           /\ list[e].element = dom[i].nid
           /\ list[e].signature = dom[i].sig

(* ------------------------------------------------------------------ *)
(* C26                                                                 *)
(* ------------------------------------------------------------------ *)

\* the position in the page d of the node with identity n, 0 when there is none
PositionOf(d, n) ==
    IF \E i \in 1..Len(d) : d[i].nid = n
    THEN CHOOSE i \in 1..Len(d) : d[i].nid = n
    ELSE 0

\* the identities of a sequence of nodes, in order
IdentitiesOf(d) == [i \in 1..Len(d) |-> d[i].nid]

\* the nodes an item sequence or an entry sequence refers to, in order
ElementsOf(s) == [i \in 1..Len(s) |-> s[i].element]

\* C26: a scan returns exactly one item per user-message node whose trimmed
\* text is not empty, in document order, and none for the other nodes; after
\* a full rebuild the entries appear in the document order of their source
\* nodes; a watcher scan leaves the entries already rendered where they are
\* and places the entries it adds after them.
C26_DocumentOrder ==
    /\ [](ElementsOf(ScanNow) = IdentitiesOf(TextedNodes(dom)))
    /\ [][OpenStep =>
              LET entries == ItemsOf(list')
              IN  \A i, j \in 1..Len(entries) :
                      i < j => /\ PositionOf(dom', entries[i].element) > 0
                               /\ PositionOf(dom', entries[i].element)
                                      < PositionOf(dom', entries[j].element)]_vars
    /\ [][WatcherFire => /\ Len(list) <= Len(list')
                         /\ SubSeq(list', 1, Len(list)) = list]_vars

\* C26 witness: the page holds a white-space message between two others; the
\* panel was opened, showing the first, the page's latest change added the
\* third, and the watcher scan has put its entry after the first's.
C26_Witness ==
    /\ IsOpen
    /\ openHist = NoHist
    /\ Len(dom) = 3
    /\ dom[3].nid = muts
    /\ trim(dom[2].text) = <<>>
    /\ Len(ScanNow) = 2
    /\ Len(list) = 2
    /\ ElementsOf(list) = <<dom[1].nid, dom[3].nid>>
    /\ observerTimeout = NoTimeout

(* ------------------------------------------------------------------ *)
(* C27                                                                 *)
(* ------------------------------------------------------------------ *)

\* the readiness poll finds the chat container and sets the feature up
InstallStep == ~installed /\ installed'

\* C27: when the readiness poll finds the chat container, the signature of
\* every message in the DOM is marked seen under the current conversation
\* key (near-duplicates included), the panel stays closed and nothing is
\* rendered; the panel is opened by a click on the toggle button only.
C27_SilentMarkAtStart ==
    /\ [][InstallStep =>
              /\ signaturesOf(ScanNow) \subseteq SeenNow(CurKey)'
              /\ display' = "no-sidebar"
              /\ ariaExpanded' = "false"
              /\ list' = <<>>]_vars
    /\ [][OpenStep => ClickToggle]_vars

\* C27 witness: the page added two messages whose merge keys are
\* prefix-related, then the address changed, and only then the readiness
\* poll found the container: both signatures are seen under the new key, the
\* only key of the registry, and there is no panel.
C27_Witness ==
    /\ installed
    /\ display = "no-sidebar"
    /\ list = <<>>
    /\ muts = 3
    /\ IdentitiesOf(dom) = <<1, 2>>
    /\ loc # StartLocation
    /\ DOMAIN convSeen = {CurKey}
    /\ Len(ScanNow) = 2
    /\ ScanNow[1].signature # ScanNow[2].signature
    /\ PrefixRelated(keyOf(ScanNow[1]), keyOf(ScanNow[2]))
    /\ {ScanNow[1].signature, ScanNow[2].signature} \subseteq SeenNow(CurKey)

(* ------------------------------------------------------------------ *)
(* C28                                                                 *)
(* ------------------------------------------------------------------ *)

\* the non-empty segments of a pathname, in order
Segments(p) == SelectSeq(p, LAMBDA t : t # "/")

\* the positions of the segments "chat" that no "chat" precedes and a segment
\* follows (at most one position)
FollowedFirstChat(p) ==
    {i \in 1..(Len(Segments(p)) - 1) :
        /\ Segments(p)[i] = "chat"
        /\ \A j \in 1..(i - 1) : Segments(p)[j] # "chat"}

\* the segment after the first "chat" segment as a one-token string, None
\* when there is none
SegmentAfterChat(p) ==
    IF FollowedFirstChat(p) = {} THEN None
    ELSE <<Segments(p)[(CHOOSE i \in FollowedFirstChat(p) : TRUE) + 1]>>

\* C28: getConversationKey returns the path segment that follows the first
\* path segment equal to "chat" when there is one, and otherwise origin +
\* pathname; so two addresses of the site have the same key exactly when they
\* have the same segment after "chat" or, both lacking one, the same
\* pathname.
C28_ConversationKey ==
    /\ CurKey = IF SegmentAfterChat(loc) # None
                THEN SegmentAfterChat(loc)
                ELSE <<Origin>> \o loc
    /\ \A p \in KeyPaths :
           getConversationKey(p) = CurKey
               <=> /\ SegmentAfterChat(p) = SegmentAfterChat(loc)
                   /\ SegmentAfterChat(loc) = None => p = loc

\* C28 witness: the script runs at /chat/chat/ : the key is the second
\* "chat", the poll's last-known key is that key and the message's id was
\* built from it.
C28_Witness ==
    /\ loc = <<"/", "chat", "/", "chat", "/">>
    /\ installed
    /\ lastConv = <<"chat">>
    /\ dom[1].id = nodeIdFor(<<"chat">>, dom[1].sig)
    /\ \E p \in KeyPaths : p # loc /\ getConversationKey(p) = lastConv

(* ------------------------------------------------------------------ *)
(* C29                                                                 *)
(* ------------------------------------------------------------------ *)

\* what a list shows: the class, signature and text of its children, in order
Visible(lst) ==
    [i \in 1..Len(lst) |->
        [cls |-> lst[i].cls, signature |-> lst[i].signature, text |-> lst[i].text]]

\* the list a full rebuild renders for the page d under key: uniqueOrdered
\* applied to a scan of d, rendered into the emptied list
RebuildOf(d, key) ==
    updateSidebar(<<>>, uniqueOrdered(getAllMessagesForCurrentConv(d, key)),
                  FALSE, tagAll(d, key), key)

\* the items of a scan of the current page whose signature is in the seen set
\* of the current key
SeenItemsNow == SelectSeq(ScanNow, LAMBDA it : it.signature \in SeenNow(CurKey))

\* the list shows exactly the merge of the already-seen messages of the page
\* (and no placeholder), the unseen messages follow the seen ones in the
\* document, and no unseen message has a merge key prefix-related to the key
\* of a seen one
InStepWithRebuild ==
    /\ UnseenNow # <<>>
    /\ Visible(list) =
           Visible(appendItems(<<>>, uniqueOrdered(SeenItemsNow), <<>>, CurKey))
    /\ ScanNow = SeenItemsNow \o UnseenNow
    /\ \A i \in 1..Len(SeenItemsNow) : \A j \in 1..Len(UnseenNow) :
           ~PrefixRelated(keyOf(SeenItemsNow[i]), keyOf(UnseenNow[j]))

\* a watcher scan completes while the panel is open
OpenWatcherScan == IsOpen /\ WatcherFire

KeptUnseenSignatures == {UnseenNow[i].signature : i \in Kept(UnseenNow)}

\* C31 as stated: after every completed watcher scan, every signature carried
\* by a non-empty user-message node in the DOM at that scan is in the seen set
\* of the current conversation key.
C31_Original ==
    [][WatcherFire => signaturesOf(ScanNow) \subseteq SeenNow(CurKey)']_vars

\* C31 amended: a watcher scan adds to the seen set of the current key the
\* signatures of the unseen messages that the near-duplicate merge keeps, and
\* nothing else; an unseen message that the merge absorbs into an earlier
\* unseen one is left unseen (and is new again for the next scan).
C31_Amended ==
    [][WatcherFire =>
          SeenNow(CurKey)' = SeenNow(CurKey) \cup KeptUnseenSignatures]_vars

\* C31 witness: the page added two messages and nothing else happened to it,
\* no panel was ever created, and the second message has been scanned (it is
\* tagged) by the watcher, which left its signature unseen.
C31_Witness ==
    /\ installed
    /\ display = "no-sidebar"
    /\ observerTimeout = NoTimeout
    /\ muts = 2
    /\ loc = StartLocation
    /\ IdentitiesOf(dom) = <<1, 2>>
    /\ dom[1].sig \in SeenNow(CurKey)
    /\ dom[2].sig # None
    /\ dom[2].sig \notin SeenNow(CurKey)

(* ------------------------------------------------------------------ *)
(* C32                                                                 *)
(* ------------------------------------------------------------------ *)

\* C32: every entry of the rendered list has a signature that is in the seen
\* set of the conversation key it was rendered under: an entry is never
\* rendered without its signature being marked seen under that key.
C32_RenderedIsSeen ==
    \A i \in 1..Len(list) :
        list[i].cls = "nav-item" => list[i].signature \in SeenNow(list[i].conv)

\* C32 witness: the open panel shows an entry rendered by the rebuild under
\* one key and an entry appended by the watcher under another, each seen
\* under its key.
C32_Witness ==
    /\ IsOpen
    /\ \E i, j \in 1..Len(list) :
           /\ i < j
           /\ list[i].cls = "nav-item" /\ list[j].cls = "nav-item"
           /\ list[i].conv # list[j].conv
           /\ list[i].signature \in SeenNow(list[i].conv)
           /\ list[j].signature \in SeenNow(list[j].conv)

(* ------------------------------------------------------------------ *)
(* C33                                                                 *)
(* ------------------------------------------------------------------ *)

\* C33: once the toggle button exists, its aria-expanded is "true" exactly
\* when the panel exists and is displayed.
C33_AriaMatchesDisplay ==
    ariaExpanded # "no-button" => (ariaExpanded = "true" <=> display = "block")

\* C33 witness: the panel was opened, the conversation changed and the poll
\* saw it, a watcher scan appended an entry, and the panel is displayed with
\* aria-expanded "true".
C33_Witness ==
    /\ ariaExpanded = "true"
    /\ display = "block"
    /\ lastConv = CurKey
    /\ loc # StartLocation
    /\ openHist = NoHist
    /\ observerTimeout = NoTimeout
    /\ Len(ItemsOf(list)) >= 1
    /\ \E k \in DOMAIN convSeen : k # CurKey

(* ------------------------------------------------------------------ *)
(* C34                                                                 *)
(* ------------------------------------------------------------------ *)

\* a step that calls toggleSidebar(false): the toggle button on an expanded
\* panel, the close button, a click outside, Escape
CloseTrigger ==
    \/ ClickToggle /\ ariaExpanded = "true"
    \/ ClickClose
    \/ ClickOutside /\ display # "no-sidebar"
    \/ PressEscape

\* C34: closing is idempotent and does not touch the seen registry: a close
\* of a panel that is already closed changes nothing, a close before any
\* panel exists creates it closed and empty, and no close changes the seen
\* set of any conversation.
C34_CloseIdempotent ==
    /\ [][CloseTrigger => /\ convSeen' = convSeen
                          /\ display' = "none"
                          /\ ariaExpanded' = "false"
                          /\ list' = <<>>]_vars
    /\ [][(CloseTrigger /\ display = "none") => UNCHANGED vars]_vars

\* C34 witness: Escape was pressed before the panel was ever opened (the
\* page has not changed and no open is recorded): the panel exists, closed
\* and empty, and the registry holds the set the readiness poll created.
C34_Witness ==
    /\ installed
    /\ display = "none"
    /\ ariaExpanded = "false"
    /\ list = <<>>
    /\ muts = 0
    /\ openHist.n = 0
    /\ DOMAIN convSeen = {CurKey}

(* ------------------------------------------------------------------ *)
(* C35                                                                 *)
(* ------------------------------------------------------------------ *)

\* one step of the recurrence on unsigned 32-bit integers: (u * 33) mod 2^32,
\* computed as (u << 5) + u, XOR c
recurrenceStep(u, c) ==
    CHOOSE r \in {LET low == uv[2] * 32 + uv[2]
                  IN  <<(uv[1] * 32 + uv[1] + (low \div Limb)) % Limb,
                        BitXor(low % Limb, c)>> : uv \in {u}} : TRUE

\* the recurrence after the first k code units of str, from 5381
RECURSIVE recurrenceAt(_, _)
recurrenceAt(str, k) ==
    IF k = 0 THEN <<0, HashSeed>>
    ELSE CHOOSE r \in {recurrenceStep(u, str[k]) : u \in {recurrenceAt(str, k - 1)}} : TRUE

\* the value of h in the loop of strHashHex after k code units
hAfter(str, k) == hashRange(<<0, HashSeed>>, str, 1, k)

\* the unsigned integer written by up to 8 hexadecimal digits, None for any
\* other string
HexValue(ds) ==
    LET val(d)  == CHOOSE k \in 0..15 : HexDigit[k + 1] = d
        padded  == [i \in 1..(8 - Len(ds)) |-> "0"] \o ds
        half(i) == val(padded[i]) * 4096 + val(padded[i + 1]) * 256
                   + val(padded[i + 2]) * 16 + val(padded[i + 3])
    IN  IF Len(ds) \in 1..8 /\ \A i \in 1..Len(ds) : \E k \in 1..16 : HexDigit[k] = ds[i]
        THEN <<half(1), half(5)>>
        ELSE None

\* a Number <<high, low>> of magnitude below 2^53: a double holds it exactly
ExactInDouble(x) ==
    (IF x[1] < 0 THEN -x[1] ELSE x[1]) \div Limb < Limb * 32

\* the hexadecimal digits of a computed signature
HexOf(node) == SubSeq(node.sig, 2, Len(node.sig))

\* C35: for every input string, strHashHex returns the value of the 32-bit
\* recurrence h0 = 5381, h' = ((h * 33) mod 2^32) XOR charCode read as an
\* unsigned 32-bit integer: the digits written are those of a value in
\* [0, 2^32) equal to the recurrence, after every code unit the loop's h is
\* the recurrence's value as a signed 32-bit integer, and every product
\* h * 33 the loop computes is below 2^53 in magnitude (exact in a double).
C35_HashIsRecurrence ==
    \A n \in 1..Len(dom) :
        dom[n].sig # None =>
            LET str == dom[n].text
            IN  /\ HexValue(HexOf(dom[n])) = recurrenceAt(str, Len(str))
                /\ \A k \in 0..Len(str) :
                       hAfter(str, k) = ToInt32(recurrenceAt(str, k))
                /\ \A k \in 0..(Len(str) - 1) :
                       ExactInDouble(product(hAfter(str, k)))

\* C35 witness: a hashed string of at least four code units for which the
\* loop ends on a negative h, after a product beyond 32 bits, and the digits
\* written are the eight digits of a value of 2^31 or more.
C35_Witness ==
    /\ Len(dom) = 1
    /\ dom[1].sig # None
    /\ Len(dom[1].text) >= 4
    /\ hAfter(dom[1].text, Len(dom[1].text))[1] < 0
    /\ product(hAfter(dom[1].text, Len(dom[1].text) - 1))[1] >= Limb
    /\ Len(HexOf(dom[1])) = 8
    /\ HexValue(HexOf(dom[1]))[1] >= Limb \div 2
=============================================================================
